---- MODULE Spec2Model ----
(***************************************************************************)
(* Model of the PC-builder assistant (src/app.py, src/app_gradio.py).      *)
(*                                                                         *)
(* Strings the code inspects character by character (use_case: operator    *)
(* `in`; price: re.sub and float) are sequences of one-character strings.  *)
(* Strings the code only copies (names, links, messages) are TLA+ strings. *)
(* Money is counted in cents: the float sum of prices that have at most    *)
(* two fractional digits, rendered by :.2f, is the exact decimal sum.      *)
(***************************************************************************)
EXTENDS Integers, Sequences, FiniteSets, TLC

VARIABLES pc, user_message, chat_history, llm_reply, search_replies,
          PC_BUILDS, chain_out, needs, extractor_calls, action,
          selected_build, lookups, final_parts_list, response, prev_response

vars == <<pc, user_message, chat_history, llm_reply, search_replies,
          PC_BUILDS, chain_out, needs, extractor_calls, action,
          selected_build, lookups, final_parts_list, response, prev_response>>

(***************************************************************************)
(* Bounds of the model.                                                    *)
(***************************************************************************)
MaxHistory == 1
MaxBudget == 1700
BigBudget == 999999
MaxFaults == 1
MaxParts == 3

(***************************************************************************)
(* Character-level strings.                                                *)
(***************************************************************************)
gaming == <<"g","a","m","i","n","g">>
office == <<"o","f","f","i","c","e">>
editing == <<"e","d","i","t","i","n","g">>
unknown == <<"u","n","k","n","o","w","n">>

UseCases == {gaming, office, editing, unknown}

\* Python's  sub in s  on strings: sub occurs as a contiguous slice of s.
Contains(sub, s) ==
  \E i \in 1..(Len(s) - Len(sub) + 1) : SubSeq(s, i, i + Len(sub) - 1) = sub

(***************************************************************************)
(* PC_BUILDS: tier key -> display name and the ordered category -> part    *)
(* mapping (a dict keeps insertion order, hence a sequence of pairs).      *)
(***************************************************************************)
PC_BUILDS_Init ==
  [ budget_office |->
      [ name |-> "Budget Office/Web Browse Build",
        parts |-> << [type |-> "CPU", name |-> "AMD Ryzen 5 5600G"],
                     [type |-> "Motherboard", name |-> "ASRock B450M PRO4"],
                     [type |-> "RAM", name |-> "Corsair Vengeance LPX 16GB DDR4 3200MHz"],
                     [type |-> "Storage", name |-> "Crucial P3 1TB NVMe SSD"],
                     [type |-> "PSU", name |-> "Thermaltake Smart 500W 80+ White"],
                     [type |-> "Case", name |-> "Cooler Master MasterBox Q300L"] >> ],
    mid_range_gaming |->
      [ name |-> "Mid-Range Gaming Build",
        parts |-> << [type |-> "CPU", name |-> "AMD Ryzen 5 7600X"],
                     [type |-> "GPU", name |-> "NVIDIA GeForce RTX 4060"],
                     [type |-> "Motherboard", name |-> "Gigabyte B650 Gaming X AX"],
                     [type |-> "RAM", name |-> "G.Skill Flare X5 32GB DDR5 6000MHz"],
                     [type |-> "Storage", name |-> "Samsung 980 Pro 1TB NVMe SSD"],
                     [type |-> "CPU Cooler", name |-> "Thermalright Phantom Spirit 120 SE"],
                     [type |-> "PSU", name |-> "Corsair RM750e 750W 80+ Gold"],
                     [type |-> "Case", name |-> "Lian Li Lancool 216"] >> ],
    high_end_gaming |->
      [ name |-> "High-End Gaming/Streaming Build",
        parts |-> << [type |-> "CPU", name |-> "AMD Ryzen 7 7800X3D"],
                     [type |-> "GPU", name |-> "NVIDIA GeForce RTX 4070 Super"],
                     [type |-> "Motherboard", name |-> "MSI MAG B650 Tomahawk WiFi"],
                     [type |-> "RAM", name |-> "G.Skill Trident Z5 Neo 32GB DDR5 6000MHz CL30"],
                     [type |-> "Storage", name |-> "Western Digital Black SN850X 2TB NVMe SSD"],
                     [type |-> "CPU Cooler", name |-> "Thermalright Phantom Spirit 120 SE"],
                     [type |-> "PSU", name |-> "SeaSonic FOCUS Plus Gold 850W"],
                     [type |-> "Case", name |-> "Fractal Design Pop Air"] >> ],
    professional_workstation |->
      [ name |-> "Professional Video Editing Workstation",
        parts |-> << [type |-> "CPU", name |-> "Intel Core i7-14700K"],
                     [type |-> "GPU", name |-> "NVIDIA GeForce RTX 4080 Super"],
                     [type |-> "Motherboard", name |-> "MSI PRO Z790-A WIFI"],
                     [type |-> "RAM", name |-> "Corsair Vengeance 64GB DDR5 5600MHz"],
                     [type |-> "Storage", name |-> "Samsung 990 Pro 2TB NVMe SSD"],
                     [type |-> "CPU Cooler", name |-> "ARCTIC Liquid Freezer II 360"],
                     [type |-> "PSU", name |-> "Corsair RM1000e 1000W 80+ Gold"],
                     [type |-> "Case", name |-> "be quiet! Pure Base 500DX"] >> ] ]

TierKeys == DOMAIN PC_BUILDS_Init

(***************************************************************************)
(* select_build_tier.  The code returns a reference to an entry of         *)
(* PC_BUILDS; the reference is the entry's key.                            *)
(***************************************************************************)
\* Variant: the gaming boundary tested with <= instead of <.
select_build_tier_GamingLeq(budget, use_case) ==
  IF Contains(gaming, use_case)
    THEN IF budget <= 1600 THEN "mid_range_gaming" ELSE "high_end_gaming"
  ELSE IF Contains(editing, use_case) THEN "professional_workstation"
  ELSE IF Contains(office, use_case) THEN "budget_office"
  ELSE IF budget <= 700 THEN "budget_office"
  ELSE IF budget <= 1600 THEN "mid_range_gaming"
  ELSE "high_end_gaming"

select_build_tier(budget, use_case) ==
  IF Contains(gaming, use_case)
    THEN IF budget < 1600 THEN "mid_range_gaming" ELSE "high_end_gaming"
  ELSE IF Contains(editing, use_case) THEN "professional_workstation"
  ELSE IF Contains(office, use_case) THEN "budget_office"
  ELSE IF budget <= 700 THEN "budget_office"
  ELSE IF budget <= 1600 THEN "mid_range_gaming"
  ELSE "high_end_gaming"

(***************************************************************************)
(* Price strings and their conversion (format_results_as_markdown).        *)
(***************************************************************************)
Digits == {"0","1","2","3","4","5","6","7","8","9"}

DigitValue(c) ==
  CASE c = "0" -> 0 [] c = "1" -> 1 [] c = "2" -> 2 [] c = "3" -> 3
    [] c = "4" -> 4 [] c = "5" -> 5 [] c = "6" -> 6 [] c = "7" -> 7
    [] c = "8" -> 8 [] c = "9" -> 9

DigitChar(d) ==
  CASE d = 0 -> "0" [] d = 1 -> "1" [] d = 2 -> "2" [] d = 3 -> "3"
    [] d = 4 -> "4" [] d = 5 -> "5" [] d = 6 -> "6" [] d = 7 -> "7"
    [] d = 8 -> "8" [] d = 9 -> "9"

PriceNotFound == <<"N","o","t"," ","F","o","u","n","d">>
PriceNA == <<"N","/","A">>
Price199 == <<"$","1","9","9",".","9","9">>
Price1299 == <<"1",",","2","9","9",".","0","0">>
Price20 == <<"$","2","0">>
PriceHalf == <<"$","0",".","5">>
PriceRange == <<"$","5",".","0","0"," ","-"," ","$","1","0",".","0","0">>
PriceDot == <<".">>

PriceStrings == {PriceNotFound, PriceNA, Price199, Price1299, Price20,
                 PriceHalf, PriceRange, PriceDot}

\* re.sub(r'[^\d.]', '', price): keep the digits and the decimal points.
IsNumericChar(c) == c \in Digits \cup {"."}

\* Variant: the pattern [^\d] in place of [^\d.], which drops the point too.
re_sub_NoDot(price) == SelectSeq(price, LAMBDA c : c \in Digits)

re_sub(price) == SelectSeq(price, IsNumericChar)

\* The value of a run of digits.
RECURSIVE DigitsValue(_)
DigitsValue(ds) ==
  IF ds = <<>> THEN 0
  ELSE 10 * DigitsValue(SubSeq(ds, 1, Len(ds) - 1)) + DigitValue(ds[Len(ds)])

DotPositions(s) == {i \in 1..Len(s) : s[i] = "."}

\* float(price_str) on a string of digits and points: a ValueError unless the
\* string has a digit and at most one point ("5.", ".5" and "5" are floats;
\* "." and "5.0010.00" are not).  The value is in cents.
float(price_str) ==
  LET dots == DotPositions(price_str)
      dot == IF dots = {} THEN Len(price_str) + 1 ELSE CHOOSE i \in dots : TRUE
      whole == SubSeq(price_str, 1, dot - 1)
      frac == SubSeq(price_str, dot + 1, Len(price_str))
      cents == IF Len(frac) = 0 THEN 0
               ELSE IF Len(frac) = 1 THEN 10 * DigitValue(frac[1])
               ELSE 10 * DigitValue(frac[1]) + DigitValue(frac[2])
  IN IF Cardinality(dots) > 1 \/ Len(price_str) - Cardinality(dots) = 0
       THEN [raised |-> TRUE, value |-> 0]
       ELSE [raised |-> FALSE, value |-> 100 * DigitsValue(whole) + cents]

\* The decimal digits of a natural number.
RECURSIVE DecimalString(_)
DecimalString(n) ==
  IF n < 10 THEN <<DigitChar(n)>>
  ELSE Append(DecimalString(n \div 10), DigitChar(n % 10))

\* f"{total_price:.2f}" of an amount in cents.
format_2f(cents) ==
  DecimalString(cents \div 100)
    \o <<".", DigitChar((cents \div 10) % 10), DigitChar(cents % 10)>>

NoReport == [title |-> "", rows |-> <<>>, total_price |-> 0,
             total_prefix |-> "", total_text |-> <<>>]

\* The for loop of format_results_as_markdown from part i on: the running
\* total and the rows written so far; a ValueError of float ends it.
RECURSIVE format_loop(_, _, _, _)
format_loop(part_details, i, total_price, rows) ==
  IF i > Len(part_details)
    THEN [raised |-> FALSE, total_price |-> total_price, rows |-> rows]
  ELSE LET part == part_details[i]
           price_str == re_sub(part.price)
           parsed == IF price_str # <<>> THEN float(price_str)
                     ELSE [raised |-> FALSE, value |-> 0]
       IN IF parsed.raised
            THEN [raised |-> TRUE, total_price |-> total_price, rows |-> rows]
            ELSE format_loop(part_details, i + 1, total_price + parsed.value,
                             Append(rows, [type |-> part.type, name |-> part.name,
                                           link |-> part.link, price |-> part.price,
                                           image |-> part.image]))

\* format_results_as_markdown(build, part_details): the report, or the
\* ValueError that leaves the function.
format_results_as_markdown(build, part_details) ==
  LET done == format_loop(part_details, 1, 0, <<>>)
  IN IF done.raised
       THEN [raised |-> TRUE, report |-> NoReport]
       ELSE [raised |-> FALSE,
             report |-> [title |-> build.name, rows |-> done.rows,
                         total_price |-> done.total_price,
                         total_prefix |-> "Estimated Total: $",
                         total_text |-> format_2f(done.total_price)]]

(***************************************************************************)
(* The Intent Extractor: llama_template | LLM | json_parser.               *)
(***************************************************************************)
\* input_variables of llama_template.
llama_template_input_variables == {"system_prompt", "format_prompt", "chat_history"}

SentinelNeeds == [budget |-> 0, use_case |-> unknown, has_confirmed |-> FALSE]
NoNeeds == [budget |-> 0, use_case |-> <<>>, has_confirmed |-> FALSE]

CoreBudgets == {0, 1500, 2000}

NeedsRecords == [budget : CoreBudgets, use_case : UseCases, has_confirmed : BOOLEAN]

\* A JSON object the parser accepts although it lacks fields of NeedsAnalysis:
\* JsonOutputParser parses, it does not validate against the pydantic model.
PartialNeeds == [budget |-> 1500]

\* What the model service does when it is prompted: the request fails, or it
\* answers text that is not JSON, or it answers a JSON object.
LLMReplies ==
  {[kind |-> "transport_error", value |-> NoNeeds],
   [kind |-> "unparseable", value |-> NoNeeds]}
  \cup {[kind |-> "json", value |-> n] : n \in NeedsRecords \cup {PartialNeeds}}

NoReply == [kind |-> "none", value |-> NoNeeds]
NoOut == [raised |-> FALSE, exc |-> "", value |-> NoNeeds]

\* LLM | json_parser on a formatted prompt.
LLM_json_parser(reply) ==
  IF reply.kind = "transport_error"
    THEN [raised |-> TRUE, exc |-> "ConnectionError", value |-> NoNeeds]
  ELSE IF reply.kind = "unparseable"
    THEN [raised |-> TRUE, exc |-> "OutputParserException", value |-> NoNeeds]
  ELSE [raised |-> FALSE, exc |-> "", value |-> reply.value]

\* chain.invoke(input): the prompt template raises KeyError when input lacks
\* one of its input_variables; otherwise the prompt goes to the model.
chain_invoke(input, reply) ==
  IF llama_template_input_variables \ DOMAIN input # {}
    THEN [raised |-> TRUE, exc |-> "KeyError", value |-> NoNeeds]
    ELSE LLM_json_parser(reply)

\* try: return response / except Exception: return the all-sentinel record.
\* Variant: the except branch returns a record that is not the sentinel.
try_return_Partial(out) ==
  IF out.raised THEN [budget |-> 1500, use_case |-> unknown, has_confirmed |-> FALSE]
  ELSE out.value

try_return(out) == IF out.raised THEN SentinelNeeds ELSE out.value

\* The dict analyze_user_needs hands to chain.invoke.
invoke_input(chat_history_str) ==
  [system_prompt |-> "You are an expert at analyzing chatbot conversations.",
   format_prompt |-> "json_parser.get_format_instructions()",
   user_prompt |-> chat_history_str]

analyze_user_needs(chat_history_str, reply) ==
  try_return(chain_invoke(invoke_input(chat_history_str), reply))

(***************************************************************************)
(* Part Price Lookup: search_amazon_for_component.                         *)
(***************************************************************************)
ProductFull == [title |-> "Listing title", price |-> Price199,
                link |-> "https://listing", thumbnail |-> "https://thumbnail"]
ProductBare == [title |-> "Listing title"]
ProductRange == [title |-> "Listing title", price |-> PriceRange,
                 link |-> "https://listing", thumbnail |-> "https://thumbnail"]

\* search.get_dict(): the request raises, or a dict comes back.
SearchError == [kind |-> "error", shopping_results |-> <<>>]
SearchNone == [kind |-> "results", shopping_results |-> <<>>]
SearchHit(product) == [kind |-> "results", shopping_results |-> <<product>>]

SearchFaults == {SearchError, SearchNone, SearchHit(ProductBare), SearchHit(ProductRange)}

\* dict.get(key, default)
Get(d, key, default) == IF key \in DOMAIN d THEN d[key] ELSE default

NoListing == [name |-> "", price |-> <<>>, link |-> "", image |-> ""]
NotFoundListing(part_name) ==
  [name |-> part_name, price |-> PriceNotFound, link |-> "#", image |-> ""]

search_amazon_for_component(part_name, reply) ==
  IF reply.kind = "error" THEN [raised |-> TRUE, value |-> NoListing]
  ELSE IF reply.shopping_results # <<>>
    THEN LET product == reply.shopping_results[1]
         IN [raised |-> FALSE,
             value |-> [name |-> Get(product, "title", part_name),
                        price |-> Get(product, "price", PriceNA),
                        link |-> Get(product, "link", "#"),
                        image |-> Get(product, "thumbnail", "")]]
  ELSE [raised |-> FALSE, value |-> NotFoundListing(part_name)]

\* The replies the search service gives to the requests of one turn, by
\* request number; at most MaxFaults of them are not a full product.
MaxTierParts ==
  CHOOSE n \in 1..20 :
    /\ \A t \in TierKeys : Len(PC_BUILDS_Init[t].parts) <= n
    /\ \E t \in TierKeys : Len(PC_BUILDS_Init[t].parts) = n
DefaultReplies == [i \in 1..MaxTierParts |-> SearchHit(ProductFull)]

RECURSIVE RepliesWithFaults(_)
RepliesWithFaults(k) ==
  IF k = 0 THEN {DefaultReplies}
  ELSE LET fewer == RepliesWithFaults(k - 1)
       IN fewer \cup {[f EXCEPT ![i] = r] : f \in fewer, i \in 1..MaxTierParts,
                                            r \in SearchFaults}

ReplyPlans == RepliesWithFaults(MaxFaults)

(***************************************************************************)
(* get_assistant_response, after the needs are known.                      *)
(***************************************************************************)
HasKey(d, key) == key \in DOMAIN d

\* The if chain on needs: the action of the turn, or the KeyError of a
\* subscript on a record that lacks the field.
\* Variant: the use case tested before the budget.
DialogueStateResolver_UseCaseFirst(n) ==
  IF ~HasKey(n, "use_case") THEN "KeyError"
  ELSE IF n.use_case = unknown THEN "ask_use_case"
  ELSE IF ~HasKey(n, "budget") THEN "KeyError"
  ELSE IF n.budget = 0 THEN "ask_budget"
  ELSE IF ~HasKey(n, "has_confirmed") THEN "KeyError"
  ELSE IF ~n.has_confirmed THEN "ask_confirm"
  ELSE "proceed_to_build"

DialogueStateResolver(n) ==
  IF ~HasKey(n, "budget") THEN "KeyError"
  ELSE IF n.budget = 0 THEN "ask_budget"
  ELSE IF ~HasKey(n, "use_case") THEN "KeyError"
  ELSE IF n.use_case = unknown THEN "ask_use_case"
  ELSE IF ~HasKey(n, "has_confirmed") THEN "KeyError"
  ELSE IF ~n.has_confirmed THEN "ask_confirm"
  ELSE "proceed_to_build"

\* search_result['type'] = part_type
tag(search_result, part_type) ==
  [type |-> part_type, name |-> search_result.name, price |-> search_result.price,
   link |-> search_result.link, image |-> search_result.image]

\* PC_BUILDS after one pass of the loop body: the body writes the dict the
\* lookup returned and the local list, never the entry selected_build names.
\* Variant: the loop body stores the found name in the selected entry.
builds_after_tag_Cached(builds, tier, i, search_result) ==
  [builds EXCEPT ![tier].parts[i].name = search_result.name]

builds_after_tag(builds, tier, i, search_result) == builds

\* for part_type, part_name in selected_build["parts"].items(): from item i
\* on.  An exception of the lookup leaves the loop and the function.
RECURSIVE lookup_loop(_, _, _, _, _, _)
lookup_loop(builds, tier, replies, i, parts_list, calls) ==
  IF i > Len(builds[tier].parts)
    THEN [raised |-> FALSE, final_parts_list |-> parts_list, lookups |-> calls,
          builds |-> builds]
  ELSE LET part == builds[tier].parts[i]
           found == search_amazon_for_component(part.name, replies[i])
       IN IF found.raised
            THEN [raised |-> TRUE, final_parts_list |-> parts_list,
                  lookups |-> Append(calls, part.name), builds |-> builds]
            ELSE lookup_loop(builds_after_tag(builds, tier, i, found.value),
                             tier, replies, i + 1,
                             Append(parts_list, tag(found.value, part.type)),
                             Append(calls, part.name))

Reply(kind, budget, use_case, exc, report) ==
  [kind |-> kind, budget |-> budget, use_case |-> use_case, exc |-> exc,
   report |-> report]

NoResponse == Reply("none", 0, <<>>, "", NoReport)
OnboardingPrompt == Reply("onboarding", 0, <<>>, "", NoReport)

\* Component selection and final output.
build_and_report(n, builds, replies) ==
  LET tier == select_build_tier(n.budget, n.use_case)
      looked == lookup_loop(builds, tier, replies, 1, <<>>, <<>>)
      formatted == format_results_as_markdown(looked.builds[tier],
                                              looked.final_parts_list)
  IN [selected_build |-> tier, lookups |-> looked.lookups,
      final_parts_list |-> looked.final_parts_list, builds |-> looked.builds,
      response |->
        IF looked.raised THEN Reply("exception", 0, <<>>, "ConnectionError", NoReport)
        ELSE IF looked.final_parts_list = <<>>
          THEN Reply("apology", 0, <<>>, "", NoReport)
        ELSE IF formatted.raised
          THEN Reply("exception", 0, <<>>, "ValueError", NoReport)
        ELSE Reply("report", 0, <<>>, "", formatted.report)]

NoBuild(builds, reply) ==
  [selected_build |-> "none", lookups |-> <<>>, final_parts_list |-> <<>>,
   builds |-> builds, response |-> reply]

\* get_assistant_response from the first test of needs to its return.
respond(n, builds, replies) ==
  LET act == DialogueStateResolver(n)
  IN CASE act = "KeyError" ->
            NoBuild(builds, Reply("exception", 0, <<>>, "KeyError", NoReport))
       [] act = "ask_budget" ->
            NoBuild(builds, Reply("ask_budget", 0, <<>>, "", NoReport))
       [] act = "ask_use_case" ->
            NoBuild(builds, Reply("ask_use_case", n.budget, <<>>, "", NoReport))
       [] act = "ask_confirm" ->
            NoBuild(builds, Reply("ask_confirm", n.budget, n.use_case, "", NoReport))
       [] act = "proceed_to_build" -> build_and_report(n, builds, replies)

(***************************************************************************)
(* The callers' inputs.                                                    *)
(***************************************************************************)
UserTexts == {"I need a PC for gaming, around $2000", "yes"}
AssistantTexts == {"Okay, just to confirm. Is that correct?"}

\* A turn of the history: turn[1] is the user's text, turn[2] the assistant's
\* (turn[0] and turn[1] of the code).
Turns == UserTexts \X AssistantTexts

Histories == UNION {[1..n -> Turns] : n \in 0..MaxHistory}

\* history_str, line by line: "User: ..." and "Assistant: ..." of every
\* turn, then "User: " and the new message.
history_str(message, history) ==
  [i \in 1..(2 * Len(history) + 1) |->
     IF i = 2 * Len(history) + 1 THEN [speaker |-> "User", text |-> message]
     ELSE IF i % 2 = 1 THEN [speaker |-> "User", text |-> history[(i + 1) \div 2][1]]
     ELSE [speaker |-> "Assistant", text |-> history[i \div 2][2]]]

\* if not chat_history
\* Variant: the empty-history test never succeeds.
not_chat_history_Never(history) == Len(history) > MaxHistory + 1

not_chat_history(history) == history = <<>>

\* The search replies matter only in a turn whose needs lead to a build.
ReplyPlansFor(reply) ==
  IF reply.kind = "json" /\ DialogueStateResolver(reply.value) = "proceed_to_build"
    THEN ReplyPlans ELSE {DefaultReplies}

(***************************************************************************)
(* The turn: gradio calls get_assistant_response(message, history).        *)
(***************************************************************************)
TurnReset ==
  /\ chain_out' = NoOut
  /\ needs' = NoNeeds
  /\ extractor_calls' = 0
  /\ action' = "none"
  /\ selected_build' = "none"
  /\ lookups' = <<>>
  /\ final_parts_list' = <<>>
  /\ response' = NoResponse

Init ==
  /\ pc = "idle"
  /\ user_message = ""
  /\ chat_history = <<>>
  /\ llm_reply = NoReply
  /\ search_replies = DefaultReplies
  /\ PC_BUILDS = PC_BUILDS_Init
  /\ chain_out = NoOut
  /\ needs = NoNeeds
  /\ extractor_calls = 0
  /\ action = "none"
  /\ selected_build = "none"
  /\ lookups = <<>>
  /\ final_parts_list = <<>>
  /\ response = NoResponse
  /\ prev_response = NoResponse

\* ChatInterface(fn=get_assistant_response): a message is submitted with the
\* history gradio holds.  llm_reply and search_replies are what the two
\* services answer during this turn, should the turn reach them.
Submit ==
  /\ pc = "idle"
  /\ \E m \in UserTexts, h \in Histories, r \in LLMReplies :
       \E plan \in ReplyPlansFor(r) :
         /\ user_message' = m
         /\ chat_history' = h
         /\ llm_reply' = r
         /\ search_replies' = plan
  /\ pc' = "called"
  /\ prev_response' = NoResponse
  /\ TurnReset
  /\ UNCHANGED PC_BUILDS

\* if not chat_history: return the onboarding prompt.
ReturnOnboarding ==
  /\ pc = "called"
  /\ not_chat_history(chat_history)
  /\ response' = OnboardingPrompt
  /\ pc' = "returned"
  /\ UNCHANGED <<user_message, chat_history, llm_reply, search_replies, PC_BUILDS,
                 chain_out, needs, extractor_calls, action, selected_build,
                 lookups, final_parts_list, prev_response>>

\* needs = analyze_user_needs(history_str)
AnalyzeUserNeeds ==
  /\ pc = "called"
  /\ ~not_chat_history(chat_history)
  /\ chain_out' = chain_invoke(invoke_input(history_str(user_message, chat_history)),
                               llm_reply)
  /\ needs' = analyze_user_needs(history_str(user_message, chat_history), llm_reply)
  /\ extractor_calls' = extractor_calls + 1
  /\ pc' = "analyzed"
  /\ UNCHANGED <<user_message, chat_history, llm_reply, search_replies, PC_BUILDS,
                 action, selected_build, lookups, final_parts_list, response,
                 prev_response>>

\* The same call with a chain whose prompt is formatted, so that the reply of
\* the model service reaches the parser: every outcome chain.invoke can have.
AnalyzeReply ==
  /\ pc = "called"
  /\ ~not_chat_history(chat_history)
  /\ chain_out' = LLM_json_parser(llm_reply)
  /\ needs' = try_return(LLM_json_parser(llm_reply))
  /\ extractor_calls' = extractor_calls + 1
  /\ pc' = "analyzed"
  /\ UNCHANGED <<user_message, chat_history, llm_reply, search_replies, PC_BUILDS,
                 action, selected_build, lookups, final_parts_list, response,
                 prev_response>>

\* The rest of get_assistant_response, to its return or its exception.
Respond ==
  /\ pc = "analyzed"
  /\ LET out == respond(needs, PC_BUILDS, search_replies)
     IN /\ action' = DialogueStateResolver(needs)
        /\ selected_build' = out.selected_build
        /\ lookups' = out.lookups
        /\ final_parts_list' = out.final_parts_list
        /\ response' = out.response
        /\ PC_BUILDS' = out.builds
  /\ pc' = "returned"
  /\ UNCHANGED <<user_message, chat_history, llm_reply, search_replies,
                 chain_out, needs, extractor_calls, prev_response>>

\* The same message is sent again with the same history (gradio's history is
\* the caller's; "Delete Previous" puts it back), and the services answer as
\* they did.
Resubmit ==
  /\ pc = "returned"
  /\ prev_response = NoResponse
  /\ prev_response' = response
  /\ pc' = "called"
  /\ TurnReset
  /\ UNCHANGED <<user_message, chat_history, llm_reply, search_replies, PC_BUILDS>>

\* gradio shows the response (or the error); the next message may come.
Deliver ==
  /\ pc = "returned"
  /\ pc' = "idle"
  /\ user_message' = ""
  /\ chat_history' = <<>>
  /\ llm_reply' = NoReply
  /\ search_replies' = DefaultReplies
  /\ prev_response' = NoResponse
  /\ TurnReset
  /\ UNCHANGED PC_BUILDS

\* The program as it is.
Next == Submit \/ ReturnOnboarding \/ AnalyzeUserNeeds \/ Respond \/ Resubmit \/ Deliver

Spec == Init /\ [][Next]_vars

\* The program with every outcome the extractor's chain can have.
NextCore == Submit \/ ReturnOnboarding \/ AnalyzeReply \/ Respond \/ Resubmit \/ Deliver

SpecCore == Init /\ [][NextCore]_vars

(***************************************************************************)
(* select_build_tier on its own: every budget and use case.                *)
(***************************************************************************)
Budgets == 0..MaxBudget \cup {BigBudget}

InitSelect ==
  /\ pc = "select_input"
  /\ needs \in [budget : Budgets, use_case : UseCases, has_confirmed : {TRUE}]
  /\ user_message = ""
  /\ chat_history = <<>>
  /\ llm_reply = NoReply
  /\ search_replies = DefaultReplies
  /\ PC_BUILDS = PC_BUILDS_Init
  /\ chain_out = NoOut
  /\ extractor_calls = 0
  /\ action = "none"
  /\ selected_build = "none"
  /\ lookups = <<>>
  /\ final_parts_list = <<>>
  /\ response = NoResponse
  /\ prev_response = NoResponse

ApplySelect ==
  /\ pc = "select_input"
  /\ selected_build' = select_build_tier(needs.budget, needs.use_case)
  /\ pc' = "select_done"
  /\ UNCHANGED <<user_message, chat_history, llm_reply, search_replies, PC_BUILDS,
                 chain_out, needs, extractor_calls, action, lookups,
                 final_parts_list, response, prev_response>>

SpecSelect == InitSelect /\ [][ApplySelect]_vars

(***************************************************************************)
(* format_results_as_markdown on its own: every list of up to MaxParts     *)
(* listings of a tier, with every price string.                            *)
(***************************************************************************)
PartLists(tier) ==
  LET parts == PC_BUILDS_Init[tier].parts
  IN UNION {{[i \in 1..n |->
                tag([name |-> parts[i].name, price |-> prices[i], link |-> "#",
                     image |-> ""], parts[i].type)] :
              prices \in [1..n -> PriceStrings]} : n \in 0..MaxParts}

InitFormat ==
  /\ pc = "format_input"
  /\ selected_build \in TierKeys
  /\ final_parts_list \in PartLists(selected_build)
  /\ user_message = ""
  /\ chat_history = <<>>
  /\ llm_reply = NoReply
  /\ search_replies = DefaultReplies
  /\ PC_BUILDS = PC_BUILDS_Init
  /\ chain_out = NoOut
  /\ needs = NoNeeds
  /\ extractor_calls = 0
  /\ action = "none"
  /\ lookups = <<>>
  /\ response = NoResponse
  /\ prev_response = NoResponse

ApplyFormat ==
  /\ pc = "format_input"
  /\ LET out == format_results_as_markdown(PC_BUILDS[selected_build], final_parts_list)
     IN response' = IF out.raised
                      THEN Reply("exception", 0, <<>>, "ValueError", NoReport)
                      ELSE Reply("report", 0, <<>>, "", out.report)
  /\ pc' = "format_done"
  /\ UNCHANGED <<user_message, chat_history, llm_reply, search_replies, PC_BUILDS,
                 chain_out, needs, extractor_calls, action, selected_build,
                 lookups, final_parts_list, prev_response>>

SpecFormat == InitFormat /\ [][ApplyFormat]_vars

(***************************************************************************)
(* Properties.                                                             *)
(***************************************************************************)

\* C2: select_build_tier returns a catalog tier for every budget and every use
\* case of {gaming, office, editing, unknown}: gaming gives mid-range below
\* 1600 and high-end from 1600 on; editing gives the workstation and office
\* the office tier whatever the budget; unknown gives the office tier up to
\* 700, mid-range up to 1600 and high-end above.
C2_SelectBuildTier ==
  pc = "select_done" =>
    /\ selected_build \in TierKeys
    /\ needs.use_case = gaming =>
         /\ needs.budget < 1600 => selected_build = "mid_range_gaming"
         /\ needs.budget >= 1600 => selected_build = "high_end_gaming"
    /\ needs.use_case = editing => selected_build = "professional_workstation"
    /\ needs.use_case = office => selected_build = "budget_office"
    /\ needs.use_case = unknown =>
         /\ needs.budget <= 700 => selected_build = "budget_office"
         /\ (needs.budget > 700 /\ needs.budget <= 1600) =>
              selected_build = "mid_range_gaming"
         /\ needs.budget > 1600 => selected_build = "high_end_gaming"

C2_Witness ==
  /\ pc = "select_done"
  /\ needs.use_case = gaming
  /\ needs.budget = 1600
  /\ selected_build = "high_end_gaming"

\* C4: format_results_as_markdown returns a report for every list of
\* listings, whatever their price strings are.
C4_ReportForEveryPriceList ==
  pc = "format_done" => response.kind = "report"

\* The contribution the specification gives each price string of the model.
SpecCents(price) ==
  CASE price = Price199 -> 19999
    [] price = Price1299 -> 129900
    [] price = Price20 -> 2000
    [] price = PriceHalf -> 50
    [] OTHER -> 0

RECURSIVE SpecTotal(_)
SpecTotal(listings) ==
  IF listings = <<>> THEN 0
  ELSE SpecCents(listings[1].price) + SpecTotal(Tail(listings))

PricesOf(listings) == [i \in 1..Len(listings) |-> listings[i].price]

\* C7: the total of a report is the sum of the numeric portions of the price
\* strings, an empty portion counting 0, and is written with exactly two
\* decimal places; "$199.99", "Not Found", "1,299.00" give 1498.99.
C7_TotalIsSumOfPrices ==
  (pc = "format_done" /\ response.kind = "report") =>
    LET text == response.report.total_text
        n == Len(text)
    IN /\ response.report.total_price = SpecTotal(final_parts_list)
       /\ n >= 4
       /\ text[n - 2] = "."
       /\ \A i \in (1..n) \ {n - 2} : text[i] \in Digits
       /\ 100 * DigitsValue(SubSeq(text, 1, n - 3))
            + DigitsValue(SubSeq(text, n - 1, n)) = SpecTotal(final_parts_list)
       /\ PricesOf(final_parts_list) = <<Price199, PriceNotFound, Price1299>> =>
            text = <<"1","4","9","8",".","9","9">>

C7_Witness ==
  /\ pc = "format_done"
  /\ PricesOf(final_parts_list) = <<Price199, PriceNotFound, Price1299>>
  /\ response.kind = "report"
  /\ response.report.total_text = <<"1","4","9","8",".","9","9">>

IsNeedsRecord(n) ==
  /\ DOMAIN n = {"budget", "use_case", "has_confirmed"}
  /\ n.use_case \in UseCases

AskActions == {"ask_budget", "ask_use_case", "ask_confirm"}

\* C1: for every Needs Record that reaches the tests of get_assistant_response
\* exactly one of the four actions results, by first match: budget 0 gives
\* ask-budget; else use case unknown gives ask-use-case; else not confirmed
\* gives ask-confirm; else proceed-to-build; and the response returned is the
\* one of that action.
C1_ResolverFirstMatch ==
  (pc = "returned" /\ extractor_calls = 1 /\ IsNeedsRecord(needs)) =>
    /\ action \in AskActions \cup {"proceed_to_build"}
    /\ needs.budget = 0 => action = "ask_budget"
    /\ (needs.budget # 0 /\ needs.use_case = unknown) => action = "ask_use_case"
    /\ (needs.budget # 0 /\ needs.use_case # unknown /\ ~needs.has_confirmed) =>
         action = "ask_confirm"
    /\ (needs.budget # 0 /\ needs.use_case # unknown /\ needs.has_confirmed) =>
         action = "proceed_to_build"
    /\ action = "ask_confirm" => (needs.budget # 0 /\ needs.use_case # unknown)
    /\ action = "proceed_to_build" =>
         (needs.budget # 0 /\ needs.use_case # unknown /\ needs.has_confirmed)
    /\ action \in AskActions => response.kind = action
    /\ action = "ask_use_case" => response.budget = needs.budget
    /\ action = "ask_confirm" =>
         (response.budget = needs.budget /\ response.use_case = needs.use_case)
    /\ action = "proceed_to_build" => response.kind \in {"report", "exception"}

C1_Witness ==
  /\ pc = "returned"
  /\ IsNeedsRecord(needs)
  /\ needs.budget = 0
  /\ needs.use_case = gaming
  /\ needs.has_confirmed
  /\ action = "ask_budget"
  /\ response.kind = "ask_budget"

PartsOf(tier) == PC_BUILDS_Init[tier].parts

LookupFails(reply) == reply.kind = "error" \/ reply.shopping_results = <<>>

\* C3: in a turn that proceeds to build, a lookup that fails (no result, or a
\* transport error) is replaced by the "Not Found" listing, the lookups of
\* the other categories are still made, and the turn returns a report.
C3_LookupFailureTolerated ==
  (pc = "returned" /\ action = "proceed_to_build") =>
    \A i \in 1..Len(PartsOf(selected_build)) :
      LookupFails(search_replies[i]) =>
        /\ response.kind = "report"
        /\ Len(lookups) = Len(PartsOf(selected_build))
        /\ Len(final_parts_list) = Len(PartsOf(selected_build))
        /\ final_parts_list[i] =
             tag(NotFoundListing(PartsOf(selected_build)[i].name),
                 PartsOf(selected_build)[i].type)

ConfirmedGaming2000 ==
  [kind |-> "json",
   value |-> [budget |-> 2000, use_case |-> gaming, has_confirmed |-> TRUE]]

\* C5: when the history implies the confirmed record (2000, gaming, true) and
\* every lookup succeeds, the turn proceeds to build: the high-end gaming tier
\* is selected, exactly 8 lookups are made, and the report has 8 rows and a
\* total line that starts "Estimated Total: $".
C5_ConfirmedHistoryBuilds ==
  (/\ pc = "returned"
   /\ chat_history # <<>>
   /\ llm_reply.kind = "json"
   /\ llm_reply = ConfirmedGaming2000
   /\ search_replies = DefaultReplies) =>
    /\ action = "proceed_to_build"
    /\ selected_build = "high_end_gaming"
    /\ Len(lookups) = 8
    /\ response.kind = "report"
    /\ Len(response.report.rows) = 8
    /\ response.report.total_prefix = "Estimated Total: $"

\* C6: a turn with a non-empty history calls the Intent Extractor exactly
\* once; an asking action makes no lookup; proceed-to-build makes exactly one
\* lookup per category of the selected tier, with the category's part name,
\* in the tier's order, and the listings keep that order and their category.
C6_CallsPerTurn ==
  (pc = "returned" /\ chat_history # <<>>) =>
    /\ extractor_calls = 1
    /\ action \in AskActions => lookups = <<>>
    /\ action = "proceed_to_build" =>
         /\ lookups = [i \in 1..Len(PartsOf(selected_build)) |->
                         PartsOf(selected_build)[i].name]
         /\ Len(final_parts_list) = Len(PartsOf(selected_build))
         /\ \A i \in 1..Len(final_parts_list) :
              final_parts_list[i].type = PartsOf(selected_build)[i].type

\* C8: an exception of the chain does not leave analyze_user_needs: the needs
\* are the all-sentinel record, the turn answers with the ask-budget prompt
\* and makes no lookup.
C8_ExtractorFailureIsSentinel ==
  (pc \in {"analyzed", "returned"} /\ chain_out.raised) =>
    /\ needs = SentinelNeeds
    /\ pc = "returned" =>
         /\ action = "ask_budget"
         /\ response = Reply("ask_budget", 0, <<>>, "", NoReport)
         /\ lookups = <<>>

C8_Witness ==
  /\ pc = "returned"
  /\ chain_out.raised
  /\ chain_out.exc = "OutputParserException"
  /\ needs = SentinelNeeds
  /\ response.kind = "ask_budget"

\* C9: with an empty history the turn returns the onboarding prompt for every
\* message and calls neither the Intent Extractor nor the lookup; none of the
\* four actions is evaluated.
C9_EmptyHistoryOnboarding ==
  (pc \in {"analyzed", "returned"} /\ chat_history = <<>>) =>
    /\ pc = "returned"
    /\ response = OnboardingPrompt
    /\ extractor_calls = 0
    /\ chain_out = NoOut
    /\ lookups = <<>>
    /\ action = "none"

C9_Witness ==
  /\ pc = "returned"
  /\ chat_history = <<>>
  /\ user_message = "yes"
  /\ response = OnboardingPrompt
  /\ extractor_calls = 0

\* C10: no step of a turn writes PC_BUILDS, the history or the message, and a
\* call repeated with the same message and history, the services answering as
\* before, returns what the first call returned.
C10_NoCrossTurnState ==
  [][/\ PC_BUILDS' = PC_BUILDS
     /\ pc \in {"called", "analyzed"} =>
          (chat_history' = chat_history /\ user_message' = user_message)
     /\ (pc' = "returned" /\ prev_response' # NoResponse) =>
          response' = prev_response']_vars

C10_Witness ==
  /\ pc = "returned"
  /\ prev_response.kind = "report"
  /\ response = prev_response
  /\ PC_BUILDS = PC_BUILDS_Init

====
